---- MODULE Spec2Model ----
(***************************************************************************)
(* Visual object search over video (app/services/visual_search_service.py) *)
(* as a state machine: VisualSearch.open_video, the two keyframe selectors *)
(* extract_keyframe_per_minute and extract_keyframes, save_frame_with_boxes *)
(* and the orchestrating loop fetch_timestamp.                              *)
(*                                                                          *)
(* Numbers that are floats in the program are kept exact: a frame rate is   *)
(* an integer number of milli-frames per second, a confidence score an      *)
(* integer number of thousandths, a histogram threshold a number of tenths, *)
(* a timestamp the fraction n/d.                                            *)
(***************************************************************************)
EXTENDS Integers, Sequences, FiniteSets, TLC

VARIABLES
    pc,                 \* position of the running call
    video,              \* the container behind video_location
    threshold,          \* extract_keyframes' threshold argument, in tenths
    cap,                \* the cv2.VideoCapture handle: "none", "open", "released"
    fps,                \* local fps, in milli-frames per second
    frames_per_minute,  \* local frames_per_minute of extract_keyframe_per_minute
    frame_idx,          \* local frame_idx of the selector
    frames_list,        \* local frames_list of the selector, then `frames`
    prev_hist,          \* local prev_hist of extract_keyframes (<<>> is None)
    cand,               \* position of fetch_timestamp's for loop in `frames`
    count_frame,        \* local count_frame of fetch_timestamp
    result,             \* results[0] of the current loop iteration
    save,               \* local save of the current loop iteration
    drawn,              \* boxes drawn by the last save_frame_with_boxes call
    files,              \* annotated files present in the output directory
    error,              \* the exception that left the call, "none" if none
    ret,                \* what the call returned to its caller
    nreads,             \* number of cap.read() calls made
    detected,           \* frame ids handed to the detector, in call order
    nsaves,             \* number of save_frame_with_boxes calls made
    phases,             \* the phases of the search so far, in order
    outputs,            \* local outputs: what the model returned last
    printed,            \* the detections printed by the loop iteration under way
    matched,            \* frame ids on which a detection survived, this search
    attempts,           \* the save_frame_with_boxes calls of this search
    query,              \* the query argument of fetch_timestamp
    stub,               \* the deterministic detector and disk of a test, or None
    log,                \* a test's record of the running search
    capture,            \* a test's records of the searches that ended
    request,            \* the request the endpoint is serving
    response,           \* what the endpoint answered
    location,           \* the video_location argument of fetch_timestamp
    store,              \* the videos behind the locations
    written,            \* who wrote each annotated file last: name, query, video
    loads,              \* number of times the detector model was loaded
    served,             \* number of requests the endpoint has answered
    canvas              \* the array the last save_frame_with_boxes call drew on

vars == << pc, video, threshold, cap, fps, frames_per_minute, frame_idx,
           frames_list, prev_hist, cand, count_frame, result, save, drawn,
           files, error, ret, nreads, detected, nsaves, phases, outputs,
           printed, matched, attempts, query, stub, log, capture, request,
           response, location, store, written, loads, served, canvas >>

selvars == << fps, frames_per_minute, frame_idx, frames_list, prev_hist >>
obsvars == << outputs, printed, matched, attempts >>
loopvars == << cand, count_frame, result, save, drawn, files, detected, nsaves,
               obsvars, written, canvas >>
testvars == << stub, log, capture >>
apivars == << request, response, location, store >>
procvars == << loads, served >>
envvars == << query, testvars, apivars, procvars >>

----------------------------------------------------------------------------
(* Bounds of the model *)

\* longest explicitly enumerated video, in frames
MaxFrames == 3
\* length of the one long (static) recording, in frames
LongLen == 1801
\* most raw detections the detector returns for one frame
MaxDet == 2

----------------------------------------------------------------------------
(* Frames, videos *)

\* a pixel is a <<B, G, R>> triple, as cap.read() delivers it
Black == << 0, 0, 0 >>
White == << 255, 255, 255 >>

\* a frame is one row of pixels: its height is 1, its width its length
FrameSet == { << Black, Black >>, << Black, White >>, << White, White >> }

None == << >>
Some(x) == << x >>

RECURSIVE SeqsUpTo(_, _)
SeqsUpTo(S, n) ==
    IF n = 0 THEN { << >> }
    ELSE LET shorter == SeqsUpTo(S, n - 1)
         IN  shorter \cup { Append(s, x) : s \in { t \in shorter : Len(t) = n - 1 }, x \in S }

\* A stored video is a sequence of runs of equal frames.  `rate` is what the
\* container reports for CAP_PROP_FPS (0: it reports none), `readable` the
\* number of frames cap.read() delivers before it first returns ret = False
\* (the end of the stream, or a frame that fails to decode before it).
RECURSIVE NFrames(_)
NFrames(runs) ==
    IF runs = << >> THEN 0 ELSE Head(runs).n + NFrames(Tail(runs))

RECURSIVE FrameAt(_, _)
FrameAt(runs, i) ==
    IF i < Head(runs).n THEN Head(runs).frame
    ELSE FrameAt(Tail(runs), i - Head(runs).n)

Run(f, k) == [frame |-> f, n |-> k]

ShortRuns == { [i \in 1..Len(s) |-> Run(s[i], 1)] : s \in SeqsUpTo(FrameSet, MaxFrames) }
LongRuns == { << Run(<< Black, White >>, LongLen) >> }

\* frame rates: none reported, 0.01, 0.025, 0.034, 23.976 and 30 frames/second
SlowRates == { 10, 25, 34 }
RealRates == { 0, 23976, 30000 }

ShortVideos ==
    UNION { { [openable |-> o, rate |-> r, runs |-> rs, readable |-> k] :
                o \in BOOLEAN, r \in SlowRates \cup RealRates, k \in 0..Len(rs) } :
            rs \in ShortRuns }

LongVideos ==
    { [openable |-> TRUE, rate |-> r, runs |-> rs, readable |-> LongLen] :
        r \in RealRates, rs \in LongRuns }

\* the videos searched: every length up to MaxFrames, the content cycling
\* through three different frames, and the long recording
CycleFrame(i) ==
    IF i % 3 = 0 THEN << Black, Black >>
    ELSE IF i % 3 = 1 THEN << Black, White >>
    ELSE << White, White >>

CycleRuns == { [i \in 1..n |-> Run(CycleFrame(i - 1), 1)] : n \in 0..MaxFrames }

Videos == { v \in ShortVideos : v.runs \in CycleRuns } \cup LongVideos

----------------------------------------------------------------------------
(* cv2 calls of extract_keyframes *)

\* cv2.cvtColor(frame, cv2.COLOR_BGR2GRAY) on one 8-bit pixel: OpenCV's
\* fixed-point weights for B, G and R, rounded to the nearest grey level
GrayOf(px) == (px[1] * 3735 + px[2] * 19235 + px[3] * 9798 + 16384) \div 32768

cvtColor(frame) == [i \in 1..Len(frame) |-> GrayOf(frame[i])]

\* the 256 bins of the histogram, one per grey level
NumBins == 256

\* cv2.calcHist([gray], [0], None, [256], [0, 256]): the number of pixels of
\* each grey level.  Only the populated bins are stored; every other bin is 0.
calcHist(gray) ==
    [b \in { gray[i] : i \in 1..Len(gray) } |->
        Cardinality({ i \in 1..Len(gray) : gray[i] = b })]

\* the sum of h[b] * g[b] over the bins b of S
RECURSIVE SumBins(_, _, _)
SumBins(h, g, S) ==
    IF S = { } THEN 0
    ELSE LET b == CHOOSE x \in S : TRUE
         IN  h[b] * g[b] + SumBins(h, g, S \ { b })

\* the sum of h[b] * g[b] over all bins: a bin empty in either adds nothing
Dot(h, g) == SumBins(h, g, DOMAIN h \cap DOMAIN g)

\* the sum of h[b] over all bins
Total(h) == SumBins(h, [b \in DOMAIN h |-> 1], DOMAIN h)

\* cv2.normalize(hist, hist).flatten(): every bin divided by the L2 norm.  The
\* normalised histogram is kept as the counts and the squared norm dividing them.
normalize(h) == [bins |-> h, norm2 |-> Dot(h, h)]

\* cv2.compareHist(h1, h2, cv2.HISTCMP_CORREL) < t / 10.
\* With s1 = sum h1, s12 = sum h1*h2, ... over the N = 256 bins OpenCV returns
\* (s12 - s1*s2/N) / sqrt((s11 - s1*s1/N) * (s22 - s2*s2/N)), and 1 when the
\* denominator vanishes; the common factor 1/(norm1 * norm2) cancels.
CorrelBelow(h1, h2, t) ==
    LET s1 == Total(h1.bins)
        s2 == Total(h2.bins)
        s11 == Dot(h1.bins, h1.bins)
        s22 == Dot(h2.bins, h2.bins)
        s12 == Dot(h1.bins, h2.bins)
        num == NumBins * s12 - s1 * s2
        den2 == (NumBins * s11 - s1 * s1) * (NumBins * s22 - s2 * s2)
        a == num * 10
    IN  IF den2 = 0 THEN 10 < t
        ELSE IF a < 0 /\ t >= 0 THEN TRUE
        ELSE IF a >= 0 /\ t <= 0 THEN FALSE
        ELSE IF a >= 0 THEN a * a < t * t * den2
        ELSE a * a > t * t * den2

\* thresholds -1.0, 0.6 (the default), 0.8, 1.0 and 1.5, in tenths
Thresholds == { -10, 6, 8, 10, 15 }

----------------------------------------------------------------------------
(* Values shared by the two selectors *)

\* cap.get(cv2.CAP_PROP_FPS) or 30
EffectiveFps(rate) == IF rate = 0 THEN 30000 ELSE rate

\* the mutant of Timestamp that divides by the nominal 30 frames a second
Timestamp_Nominal(idx, f) == [n |-> idx * 1000, d |-> 30000]

\* frame_idx / fps, as the fraction n / d
Timestamp(idx, f) == [n |-> idx * 1000, d |-> f]

\* the mutant of Candidate that stamps the frame with its place in the list
Candidate_ListIndex(frame, idx, f) ==
    [frame |-> frame, frame_id |-> Len(frames_list), timestamp |-> Timestamp(idx, f)]

\* (pil_frame, frame_idx, timestamp)
Candidate(frame, idx, f) ==
    [frame |-> frame, frame_id |-> idx, timestamp |-> Timestamp(idx, f)]

Unset == [kind |-> "unset"]
ReturnNone == [kind |-> "None"]
ReturnList(l) == [kind |-> "list", items |-> l]

\* the mutant of release that leaves the handle open
release_Skipped(c) == c

\* cap.release()
release(c) == "released"

\* the mutant of ReadOk that reads on past a frame that cannot be decoded
ReadOk_PastFailure == frame_idx < NFrames(video.runs)

\* ret, frame = cap.read(): ret is True while frames remain readable
ReadOk == frame_idx < video.readable
ReadFrame == FrameAt(video.runs, frame_idx)

----------------------------------------------------------------------------
(* extract_keyframes(cap, threshold) *)

HistOf(frame) == normalize(calcHist(cvtColor(frame)))

\* the mutant of IsSceneChange that forgets the first frame
IsSceneChange_NoFirst(prev, hist, t) ==
    prev # None /\ CorrelBelow(prev[1], hist, t)

\* the mutant of IsSceneChange that compares the wrong way round
IsSceneChange_Above(prev, hist, t) ==
    prev = None \/ ~CorrelBelow(prev[1], hist, t)

\* prev_hist is None or cv2.compareHist(prev_hist, hist, HISTCMP_CORREL) < threshold
IsSceneChange(prev, hist, t) ==
    prev = None \/ CorrelBelow(prev[1], hist, t)

\* the mutant of NextPrevHist that follows the last decoded frame
NextPrevHist_Decoded(prev, hist, emit) == Some(hist)

\* prev_hist = hist, inside the if
NextPrevHist(prev, hist, emit) == IF emit THEN Some(hist) ELSE prev

\* the mutant of NewFramesList that keeps what an earlier call collected
NewFramesList_Kept(old) == old

\* frames_list = []: a new list at every call
NewFramesList(old) == << >>

\* the while loop of extract_keyframes from frame idx on, as a function of the
\* video and the threshold: acc is frames_list, prev is prev_hist
RECURSIVE KeyframesFrom(_, _, _, _, _)
KeyframesFrom(v, t, idx, prev, acc) ==
    IF idx >= v.readable
    THEN acc
    ELSE LET frame == FrameAt(v.runs, idx)
             hist == HistOf(frame)
             emit == IsSceneChange(prev, hist, t)
         IN  KeyframesFrom(v, t, idx + 1, NextPrevHist(prev, hist, emit),
                           IF emit
                           THEN Append(acc, Candidate(frame, idx, EffectiveFps(v.rate)))
                           ELSE acc)

\* what extract_keyframes returns for a handle on v
extract_keyframes(v, t) == KeyframesFrom(v, t, 0, None, << >>)

KeyframesStart ==
    /\ pc = "kf_call"
    /\ fps' = EffectiveFps(video.rate)
    /\ prev_hist' = None
    /\ frame_idx' = 0
    /\ frames_list' = NewFramesList(frames_list)
    /\ pc' = "kf_loop"
    /\ UNCHANGED << video, threshold, cap, frames_per_minute, loopvars, error,
                    ret, nreads, phases, envvars >>

KeyframesRead ==
    /\ pc = "kf_loop"
    /\ ReadOk
    /\ LET hist == HistOf(ReadFrame)
           emit == IsSceneChange(prev_hist, hist, threshold)
       IN  /\ frames_list' = IF emit
                             THEN Append(frames_list, Candidate(ReadFrame, frame_idx, fps))
                             ELSE frames_list
           /\ prev_hist' = NextPrevHist(prev_hist, hist, emit)
    /\ frame_idx' = frame_idx + 1
    /\ nreads' = nreads + 1
    /\ UNCHANGED << pc, video, threshold, cap, fps, frames_per_minute, loopvars,
                    error, ret, phases, envvars >>

KeyframesEnd ==
    /\ pc = "kf_loop"
    /\ ~ReadOk
    /\ nreads' = nreads + 1
    /\ cap' = release(cap)
    /\ ret' = ReturnList(frames_list)
    /\ pc' = "kf_done"
    /\ UNCHANGED << video, threshold, selvars, loopvars, error, phases, envvars >>

\* a handle just opened on any openable short video, and any threshold
InitKeyframes ==
    /\ pc = "kf_call"
    /\ video \in { v \in ShortVideos : v.openable }
    /\ threshold \in Thresholds
    /\ cap = "open"
    /\ fps = 0
    /\ frames_per_minute = 0
    /\ frame_idx = 0
    /\ frames_list = << >>
    /\ prev_hist = None
    /\ cand = 0
    /\ count_frame = 0
    /\ result = << >>
    /\ save = FALSE
    /\ drawn = << >>
    /\ canvas = << >>
    /\ files = { }
    /\ error = "none"
    /\ ret = Unset
    /\ nreads = 0
    /\ detected = << >>
    /\ nsaves = 0
    /\ phases = << >>
    /\ outputs = << >>
    /\ printed = << >>
    /\ matched = { }
    /\ attempts = << >>
    /\ query = "girl with pink shirt"
    /\ stub = None
    /\ log = << >>
    /\ capture = << >>
    /\ request = Unset
    /\ response = Unset
    /\ location = "short_cctv.mp4"
    /\ store = [l \in { "short_cctv.mp4" } |-> video]
    /\ written = { }
    /\ loads = 1
    /\ served = 0

NextKeyframes == KeyframesStart \/ KeyframesRead \/ KeyframesEnd

SpecKeyframes == InitKeyframes /\ [][NextKeyframes]_vars

----------------------------------------------------------------------------
(* open_video and extract_keyframe_per_minute(cap) *)

\* the mutant of OpenFails that never checks cap.isOpened()
OpenFails_Unchecked(v) == FALSE

\* not cap.isOpened()
OpenFails(v) == ~v.openable

\* int(fps * 60)
FramesPerMinute(f) == (f * 60) \div 1000

\* frame_idx % frames_per_minute == 0, for frames_per_minute > 0
IsMinuteStart(idx, fpm) == idx % fpm = 0

\* video = self.open_video(video_location), up to start_time and count_frame
FetchOpen ==
    /\ pc = "call"
    /\ IF OpenFails(video)
       THEN /\ pc' = "raised"
            /\ error' = "IOError"
            /\ UNCHANGED << cap, count_frame, phases >>
       ELSE /\ pc' = "opened"
            /\ cap' = "open"
            /\ count_frame' = 0
            /\ phases' = Append(phases, "OPENED")
            /\ UNCHANGED error
    /\ UNCHANGED << video, threshold, selvars, cand, result, save, drawn, files,
                    ret, nreads, detected, nsaves, obsvars, written, canvas,
                    envvars >>

\* frames = self.extract_keyframe_per_minute(video): the lines before the loop
PerMinuteStart ==
    /\ pc = "opened"
    /\ fps' = EffectiveFps(video.rate)
    /\ frames_per_minute' = FramesPerMinute(EffectiveFps(video.rate))
    /\ frame_idx' = 0
    /\ frames_list' = NewFramesList(frames_list)
    /\ pc' = "pm_loop"
    /\ phases' = Append(phases, "SAMPLING")
    /\ UNCHANGED << video, threshold, cap, prev_hist, loopvars, error, ret, nreads,
                    envvars >>

\* one iteration of the while loop with ret = True
PerMinuteRead ==
    /\ pc = "pm_loop"
    /\ ReadOk
    /\ nreads' = nreads + 1
    /\ IF frames_per_minute = 0
       THEN \* frame_idx % 0 raises, and nothing on the way out releases cap
            /\ pc' = "raised"
            /\ error' = "ZeroDivisionError"
            /\ UNCHANGED << frame_idx, frames_list >>
       ELSE /\ frames_list' = IF IsMinuteStart(frame_idx, frames_per_minute)
                              THEN Append(frames_list, Candidate(ReadFrame, frame_idx, fps))
                              ELSE frames_list
            /\ frame_idx' = frame_idx + 1
            /\ UNCHANGED << pc, error >>
    /\ UNCHANGED << video, threshold, cap, fps, frames_per_minute, prev_hist,
                    loopvars, ret, phases, envvars >>

\* ret = False: break, cap.release(), return frames_list
PerMinuteEnd ==
    /\ pc = "pm_loop"
    /\ ~ReadOk
    /\ nreads' = nreads + 1
    /\ cap' = release(cap)
    /\ cand' = 1
    /\ pc' = "detect"
    /\ phases' = Append(phases, "CLOSED")
    /\ UNCHANGED << video, threshold, selvars, count_frame, result, save, drawn,
                    files, error, ret, detected, nsaves, obsvars, written,
                    canvas, envvars >>

----------------------------------------------------------------------------
(* The detector, save_frame_with_boxes and the loop of fetch_timestamp *)

\* Boxes the model may return, as <<x1, y1, x2, y2>> in thousandths of the
\* padded square image: one in its upper left quarter, one reaching its
\* lower right corner.
BoxSmall == << 0, 0, 500, 500 >>
BoxFull == << 250, 250, 1000, 1000 >>
\* corners computed from a centre and a size can leave the unit square
BoxOutside == << -600, 250, 1100, 750 >>

\* raw detections: confidence in thousandths, and a box
RawDets ==
    { [score |-> 100, box |-> BoxSmall], [score |-> 150, box |-> BoxSmall],
      [score |-> 200, box |-> BoxFull], [score |-> 400, box |-> BoxOutside] }

\* what self.model(**inputs) can hold for one frame
DetectorOutputs == SeqsUpTo(RawDets, MaxDet)

\* threshold=0.15 of the post-processing call, in thousandths
DetectThreshold == 150
\* score_threshold=0.15 handed to save_frame_with_boxes, in thousandths
DrawThreshold == 150

Max(a, b) == IF a >= b THEN a ELSE b

\* torch.tensor([(frame.height, frame.width)])
TargetSize(frame) == [height |-> 1, width |-> Len(frame)]

\* the processor scales a box to the padded square, max(height, width) a side;
\* the result is in thousandths of a pixel
ScaleBox(box, size) == [i \in 1..4 |-> box[i] * Max(size.height, size.width)]

\* the mutant of PostProcess that keeps every detection
PostProcess_Unfiltered(raw, thr, size) ==
    [i \in 1..Len(raw) |->
        [score |-> raw[i].score, box |-> ScaleBox(raw[i].box, size)]]

\* self.processor.post_process_grounded_object_detection(outputs,
\*     threshold=0.15, target_sizes=target_sizes)[0]:
\* the detections scoring above the threshold, in the detector's order
PostProcess(raw, thr, size) ==
    LET Keep(d) == d.score > thr
        kept == SelectSeq(raw, Keep)
    IN  [i \in 1..Len(kept) |->
            [score |-> kept[i].score, box |-> ScaleBox(kept[i].box, size)]]

\* int(x) of a coordinate in thousandths of a pixel: towards zero
IntOf(x) == IF x >= 0 THEN x \div 1000 ELSE -((-x) \div 1000)

\* the mutant of DrawnBoxes that draws with the default score_threshold=0.3
DrawnBoxes_Default(res, thr) ==
    LET Shown(d) == ~(d.score < 300)
        shown == SelectSeq(res, Shown)
    IN  [i \in 1..Len(shown) |->
            [score |-> shown[i].score,
             box |-> [k \in 1..4 |-> IntOf(shown[i].box[k])]]]

\* the loop of save_frame_with_boxes: the boxes it draws, with their text
DrawnBoxes(res, thr) ==
    LET Shown(d) == ~(d.score < thr)
        shown == SelectSeq(res, Shown)
    IN  [i \in 1..Len(shown) |->
            [score |-> shown[i].score,
             box |-> [k \in 1..4 |-> IntOf(shown[i].box[k])]]]

\* color=(0, 255, 0)
Green == << 0, 255, 0 >>

\* the pixel in column x of the one row of the frame is within thickness=2 of
\* the outline of the rectangle (x1, y1)-(x2, y2)
OnOutline(x, box) ==
    /\ x \in (box[1] - 1)..(box[3] + 1)
    /\ 0 \in (box[2] - 1)..(box[4] + 1)
    /\ ~(/\ x \in (box[1] + 2)..(box[3] - 2)
         /\ 0 \in (box[2] + 2)..(box[4] - 2))

\* cv2.rectangle for every box drawn, on an array of the frame's pixels; the
\* text of cv2.putText has its baseline at row 20 or below and misses a frame
\* of one row
Painted(frame, boxes) ==
    [x \in 1..Len(frame) |->
        IF \E i \in 1..Len(boxes) : OnOutline(x - 1, boxes[i].box)
        THEN Green
        ELSE frame[x]]

\* the mutant of FrameAfterSave in which the drawing is done on the frame
FrameAfterSave_InPlace(frame, painted) == painted

\* what the candidate holds once save_frame_with_boxes has returned:
\* fetch_timestamp hands over frame.copy(), and np.array(frame) makes the array
\* that is drawn on, so the candidate is what it was
FrameAfterSave(frame, painted) == frame

\* the decimal digits of a natural number
RECURSIVE Digits(_)
Digits(n) == IF n < 10 THEN << n >> ELSE Append(Digits(n \div 10), n % 10)

\* f"frame_{frame_id:05d}.jpg": the digits of frame_id, zero-padded to five
FileName(id) ==
    LET d == Digits(id)
    IN  IF Len(d) >= 5 THEN d ELSE [i \in 1..(5 - Len(d)) |-> 0] \o d

\* os.makedirs and cv2.imwrite: the file is written, or imwrite returns False
\* and writes nothing, or one of the calls raises
SaveOutcomes == { "written", "unwritten", "raise" }

HasNextCandidate == pc = "detect" /\ cand <= Len(frames_list)

\* the mutant of LoopItem that walks the list from its end
LoopItem_Reversed(frames, k) == frames[Len(frames) + 1 - k]

\* for frame, frame_id, timestamp in frames: the item of the k-th iteration
LoopItem(frames, k) == frames[k]

\* cv2.imwrite(output_path, frame) on a path that may exist: the file now
\* holds the frame of this search, whatever it held before
Overwrite(disk, name) ==
    { r \in disk : r.name # name }
        \cup { [name |-> name, query |-> query, location |-> location] }

\* print(f"Detected {labels} with confidence {round(score.item(), 3)} at
\* location {box} in {timestamp}"), once per surviving detection
PrintedLines(res, c) ==
    [i \in 1..Len(res) |->
        [score |-> res[i].score, box |-> res[i].box, timestamp |-> c.timestamp]]

\* one iteration of the for loop in which the processor or the model raises
DetectFails ==
    /\ HasNextCandidate
    /\ count_frame' = count_frame + 1
    /\ detected' = Append(detected, LoopItem(frames_list, cand).frame_id)
    /\ phases' = Append(phases, "DETECTING")
    /\ printed' = << >>
    /\ pc' = "raised"
    /\ error' = "DetectorError"
    /\ UNCHANGED << video, threshold, cap, selvars, cand, result, save, drawn,
                    files, ret, nreads, nsaves, outputs, matched, attempts,
                    written, canvas >>

\* one iteration of the for loop in which the model answers `raw` and the
\* save, if there is one, ends as `outcome`.  results[0] is a dict with the
\* keys "boxes", "scores" and "labels", never falsy, so the
\* `if not result: continue` is never taken; save is True when a detection
\* survived.
DetectStep(raw, outcome) ==
    /\ HasNextCandidate
    /\ count_frame' = count_frame + 1
    /\ detected' = Append(detected, LoopItem(frames_list, cand).frame_id)
    /\ phases' = Append(phases, "DETECTING")
    /\ outputs' = raw
    /\ LET c == LoopItem(frames_list, cand)
           res == PostProcess(raw, DetectThreshold, TargetSize(c.frame))
       IN  /\ result' = res
           /\ printed' = PrintedLines(res, c)
           /\ save' = (Len(res) > 0)
           /\ IF Len(res) = 0
              THEN /\ cand' = cand + 1
                   /\ UNCHANGED << pc, error, drawn, files, nsaves, matched,
                                   attempts, written, canvas, frames_list >>
              ELSE /\ nsaves' = nsaves + 1
                   /\ matched' = matched \cup { c.frame_id }
                   /\ attempts' = Append(attempts,
                                        [frame_id |-> c.frame_id, outcome |-> outcome])
                   /\ drawn' = IF outcome = "raise" THEN drawn
                               ELSE DrawnBoxes(res, DrawThreshold)
                   /\ canvas' = IF outcome = "raise" THEN canvas
                                ELSE Painted(c.frame, DrawnBoxes(res, DrawThreshold))
                   /\ frames_list' =
                         [frames_list EXCEPT
                            ![cand].frame = FrameAfterSave(@, canvas')]
                   /\ files' = IF outcome = "written"
                               THEN files \cup { FileName(c.frame_id) }
                               ELSE files
                   /\ written' = IF outcome = "written"
                                 THEN Overwrite(written, FileName(c.frame_id))
                                 ELSE written
                   /\ IF outcome = "raise"
                      THEN /\ pc' = "raised"
                           /\ error' = "SaveError"
                           /\ UNCHANGED cand
                      ELSE /\ cand' = cand + 1
                           /\ UNCHANGED << pc, error >>
    /\ UNCHANGED << video, threshold, cap, fps, frames_per_minute, frame_idx,
                    prev_hist, ret, nreads >>

\* the loop iteration with a detector that may raise
DetectRaises == DetectFails /\ UNCHANGED envvars

\* the loop iteration with a detector that may answer anything
DetectFrame ==
    /\ \E raw \in DetectorOutputs, outcome \in SaveOutcomes : DetectStep(raw, outcome)
    /\ UNCHANGED envvars

\* the loop is over: the summary is printed and the function ends
FetchReturn ==
    /\ pc = "detect"
    /\ cand > Len(frames_list)
    /\ pc' = "done"
    /\ ret' = ReturnNone
    /\ phases' = Append(phases, "AGGREGATED")
    /\ UNCHANGED << video, threshold, cap, selvars, loopvars, error, nreads,
                    envvars >>

\* fetch_timestamp(query, video_location) is called on any video
Init ==
    /\ pc = "call"
    /\ video \in Videos
    /\ threshold = 6
    /\ cap = "none"
    /\ fps = 0
    /\ frames_per_minute = 0
    /\ frame_idx = 0
    /\ frames_list = << >>
    /\ prev_hist = None
    /\ cand = 0
    /\ count_frame = 0
    /\ result = << >>
    /\ save = FALSE
    /\ drawn = << >>
    /\ canvas = << >>
    /\ files = { }
    /\ error = "none"
    /\ ret = Unset
    /\ nreads = 0
    /\ detected = << >>
    /\ nsaves = 0
    /\ phases = << >>
    /\ outputs = << >>
    /\ printed = << >>
    /\ matched = { }
    /\ attempts = << >>
    /\ query = "girl with pink shirt"
    /\ stub = None
    /\ log = << >>
    /\ capture = << >>
    /\ request = Unset
    /\ response = Unset
    /\ location = "short_cctv.mp4"
    /\ store = [l \in { "short_cctv.mp4" } |-> video]
    /\ written = { }
    /\ loads = 1
    /\ served = 0

Next ==
    \/ FetchOpen
    \/ PerMinuteStart
    \/ PerMinuteRead
    \/ PerMinuteEnd
    \/ DetectRaises
    \/ DetectFrame
    \/ FetchReturn

Spec == Init /\ [][Next]_vars

----------------------------------------------------------------------------
(* fetch_timestamp called repeatedly on one VisualSearch object, with a
   detector and a disk that behave the same way every time *)

\* how many times the search is run
MaxRuns == 2

\* what the detector stub does on a frame: raise, or return detections
StubAnswers ==
    { [raises |-> FALSE, dets |-> << >>],
      [raises |-> FALSE, dets |-> << [score |-> 200, box |-> BoxFull] >>],
      [raises |-> FALSE, dets |-> << [score |-> 400, box |-> BoxOutside],
                                     [score |-> 100, box |-> BoxSmall] >>],
      [raises |-> TRUE, dets |-> << >>] }

\* a stub: the answer of self.model for every frame, which depends on the
\* frame alone, and what saving does
Stubs == [detect : [FrameSet -> StubAnswers], disk : SaveOutcomes]

\* the videos of the repeated search
TwiceVideos == { v \in ShortVideos : v.runs \in CycleRuns }

\* the locals and the counters of a call that has not started
InitLocals ==
    /\ threshold = 6
    /\ cap = "none"
    /\ fps = 0
    /\ frames_per_minute = 0
    /\ frame_idx = 0
    /\ frames_list = << >>
    /\ prev_hist = None
    /\ cand = 0
    /\ count_frame = 0
    /\ result = << >>
    /\ save = FALSE
    /\ drawn = << >>
    /\ canvas = << >>
    /\ files = { }
    /\ error = "none"
    /\ ret = Unset
    /\ nreads = 0
    /\ detected = << >>
    /\ nsaves = 0
    /\ phases = << >>
    /\ outputs = << >>
    /\ printed = << >>
    /\ matched = { }
    /\ attempts = << >>
    /\ log = << >>
    /\ capture = << >>
    /\ written = { }
    /\ served = 0

InitTwice ==
    /\ InitLocals
    /\ pc = "call"
    /\ video \in TwiceVideos
    /\ stub \in Stubs
    /\ query = "girl with pink shirt"
    /\ request = Unset
    /\ response = Unset
    /\ location = "short_cctv.mp4"
    /\ store = [l \in { "short_cctv.mp4" } |-> video]
    /\ loads = 1
    /\ served = 0

\* the answer of the stub for the candidate of this iteration
StubAnswer == stub.detect[LoopItem(frames_list, cand).frame]

\* the loop iteration in which the stub raises
StubRaises ==
    /\ HasNextCandidate
    /\ StubAnswer.raises
    /\ DetectFails
    /\ UNCHANGED envvars

\* the loop iteration in which the stub answers; the detections printed are
\* recorded in the order of printing
StubDetect ==
    /\ HasNextCandidate
    /\ ~StubAnswer.raises
    /\ DetectStep(StubAnswer.dets, stub.disk)
    /\ log' = log \o printed'
    /\ UNCHANGED << query, stub, capture, apivars, procvars >>

\* the files the save calls of this search wrote
WrittenFiles ==
    { FileName(attempts[i].frame_id) :
        i \in { k \in 1..Len(attempts) : attempts[k].outcome = "written" } }

\* the call has ended, by returning or by raising: what it printed, wrote and
\* left on disk is recorded, and the next call is set up with nothing kept
\* but the object and the disk
TestCapture ==
    /\ pc \in { "done", "raised" }
    /\ Len(capture) < MaxRuns
    /\ capture' = Append(capture,
                         [log |-> log, written |-> WrittenFiles, files |-> files,
                          count_frame |-> count_frame, ended |-> pc,
                          error |-> error])
    /\ pc' = IF Len(capture) + 1 < MaxRuns THEN "call" ELSE "tested"
    /\ cap' = "none"
    /\ error' = "none"
    /\ ret' = Unset
    /\ cand' = 0
    /\ result' = << >>
    /\ save' = FALSE
    /\ drawn' = << >>
    /\ canvas' = << >>
    /\ nreads' = 0
    /\ detected' = << >>
    /\ nsaves' = 0
    /\ phases' = << >>
    /\ outputs' = << >>
    /\ printed' = << >>
    /\ matched' = { }
    /\ attempts' = << >>
    /\ log' = << >>
    /\ UNCHANGED << video, threshold, selvars, count_frame, files, written,
                    query, stub, apivars, procvars >>

NextTwice ==
    \/ FetchOpen
    \/ PerMinuteStart
    \/ PerMinuteRead
    \/ PerMinuteEnd
    \/ StubRaises
    \/ StubDetect
    \/ FetchReturn
    \/ TestCapture

SpecTwice == InitTwice /\ [][NextTwice]_vars

----------------------------------------------------------------------------
(* perform_visual_search(request, background_tasks), the handler of
   POST /visual-search in app/api/ai_service.py *)

\* the s3_url of a request
Urls == { "https://s3.amazonaws.com/bucket/video.mp4" }

\* the temporary file download_video_from_s3 would return for a url
Download(url) == "tmp.mp4"

\* os.path.join(os.getcwd(), "app", "storage", "short_cctv.mp4")
StoragePath == "app/storage/short_cctv.mp4"

Locations == { Download(u) : u \in Urls } \cup { StoragePath }

Requests ==
    [kind : { "request" }, user_query : { "girl with pink shirt", "red car" },
     s3_url : Urls]

\* the recording of n frames at 0.025 frames a second, every frame a candidate
ApiVideo(n, o) ==
    [openable |-> o, rate |-> 25, runs |-> [i \in 1..n |-> Run(CycleFrame(i - 1), 1)],
     readable |-> n]

\* what a location can hold: nothing that opens, or a recording
ApiVideos == { ApiVideo(0, FALSE) } \cup { ApiVideo(n, TRUE) : n \in { 0, 1, 2 } }

\* no handle yet
NoVideo == ApiVideo(0, FALSE)

\* the model loads of a started process: VisualSearch() at the end of the
\* service module, and again at the top of the endpoint module
ImportLoads == 2

InitApi ==
    /\ InitLocals
    /\ pc = "api_call"
    /\ video = NoVideo
    /\ stub = None
    /\ query = ""
    /\ location = ""
    /\ request \in Requests
    /\ response = Unset
    /\ store \in [Locations -> ApiVideos]
    /\ loads = ImportLoads

\* len(detections)
len(l) == Len(l)

\* the handler up to the call of fetch_timestamp: the download is commented
\* out, a VisualSearch is constructed, which loads the model, and the search is
\* pointed at the file in app/storage
ApiCall ==
    /\ pc = "api_call"
    /\ query' = request.user_query
    /\ location' = StoragePath
    /\ video' = store[StoragePath]
    /\ pc' = "call"
    /\ loads' = loads + 1
    /\ UNCHANGED << threshold, cap, selvars, loopvars, error, ret, nreads, phases,
                    testvars, request, response, store, served >>

\* fetch_timestamp returned: detections = [] replaces what it returned, and
\* the response is built from the empty list
ApiRespond ==
    /\ pc = "done"
    /\ request # Unset
    /\ LET detections == << >>
       IN  response' = [kind |-> "response",
                        query |-> request.user_query,
                        video_url |-> request.s3_url,
                        total_frames_processed |-> len(detections),
                        detections |-> detections]
    /\ pc' = "responded"
    /\ served' = served + 1
    /\ UNCHANGED << video, threshold, cap, selvars, loopvars, error, ret, nreads,
                    phases, query, testvars, request, location, store, loads >>

\* except Exception: HTTP 500, "Visual search failed"
ApiFail ==
    /\ pc = "raised"
    /\ request # Unset
    /\ response' = [kind |-> "error", status_code |-> 500, detail |-> error]
    /\ pc' = "responded"
    /\ served' = served + 1
    /\ UNCHANGED << video, threshold, cap, selvars, loopvars, error, ret, nreads,
                    phases, query, testvars, request, location, store, loads >>

NextApi ==
    \/ ApiCall
    \/ FetchOpen
    \/ PerMinuteStart
    \/ PerMinuteRead
    \/ PerMinuteEnd
    \/ DetectRaises
    \/ DetectFrame
    \/ FetchReturn
    \/ ApiRespond
    \/ ApiFail

SpecApi == InitApi /\ [][NextApi]_vars

----------------------------------------------------------------------------
(* the process from its start: app/main.py imports app.api.ai_service, which
   imports app.services.visual_search_service, whose last two lines construct
   a VisualSearch and run a search; then the endpoint serves requests, one at
   a time *)

\* how many requests the process serves
MaxRequests == 2

\* "short_cctv.mp4", relative to the working directory, and the file in
\* app/storage
ProcLocations == { "short_cctv.mp4", StoragePath }

\* the detector answers as a function of the frame; saving works or not
ProcStubs == { st \in Stubs : st.disk # "raise" }

InitProcess ==
    /\ InitLocals
    /\ pc = "import"
    /\ video = NoVideo
    /\ stub \in ProcStubs
    /\ query = ""
    /\ location = ""
    /\ request = Unset
    /\ response = Unset
    /\ store \in [ProcLocations -> ApiVideos]
    /\ loads = 0

\* a new call of fetch_timestamp starts with nothing of the last one but what
\* is on disk
NewSearch ==
    /\ cap' = "none"
    /\ error' = "none"
    /\ ret' = Unset
    /\ cand' = 0
    /\ result' = << >>
    /\ save' = FALSE
    /\ drawn' = << >>
    /\ canvas' = << >>
    /\ nreads' = 0
    /\ detected' = << >>
    /\ nsaves' = 0
    /\ phases' = << >>
    /\ outputs' = << >>
    /\ printed' = << >>
    /\ matched' = { }
    /\ attempts' = << >>
    /\ log' = << >>

\* visual_searcher = VisualSearch() and the call of
\* visual_searcher.fetch_timestamp("girl with pink shirt", "short_cctv.mp4")
\* at the end of the service module
ImportService ==
    /\ pc = "import"
    /\ loads' = loads + 1
    /\ query' = "girl with pink shirt"
    /\ location' = "short_cctv.mp4"
    /\ video' = store["short_cctv.mp4"]
    /\ pc' = "call"
    /\ UNCHANGED << threshold, cap, selvars, loopvars, error, ret, nreads, phases,
                    testvars, request, response, store, served >>

\* the search of the import raised: the import fails and the process with it
ImportFails ==
    /\ pc = "raised"
    /\ request = Unset
    /\ pc' = "crashed"
    /\ UNCHANGED << video, threshold, cap, selvars, loopvars, error, ret, nreads,
                    phases, envvars >>

\* the search of the import returned: visual_search_service = VisualSearch()
\* at the top of the endpoint module, and the process is ready
ImportApi ==
    /\ pc = "done"
    /\ request = Unset
    /\ loads' = loads + 1
    /\ pc' = "idle"
    /\ NewSearch
    /\ UNCHANGED << video, threshold, selvars, count_frame, files, written, query,
                    stub, capture, apivars, served >>

\* a request arrives at POST /visual-search
ApiReceive ==
    /\ pc \in { "idle", "responded" }
    /\ served < MaxRequests
    /\ request' \in Requests
    /\ response' = Unset
    /\ pc' = "api_call"
    /\ NewSearch
    /\ UNCHANGED << video, threshold, selvars, count_frame, files, written, query,
                    stub, capture, location, store, procvars >>

NextProcess ==
    \/ ImportService
    \/ ImportFails
    \/ ImportApi
    \/ ApiReceive
    \/ ApiCall
    \/ FetchOpen
    \/ PerMinuteStart
    \/ PerMinuteRead
    \/ PerMinuteEnd
    \/ StubRaises
    \/ StubDetect
    \/ FetchReturn
    \/ ApiRespond
    \/ ApiFail

SpecProcess == InitProcess /\ [][NextProcess]_vars

\* one search with a detector and a disk that behave as the stub says
NextLive ==
    \/ FetchOpen
    \/ PerMinuteStart
    \/ PerMinuteRead
    \/ PerMinuteEnd
    \/ StubRaises
    \/ StubDetect
    \/ FetchReturn

\* fetch_timestamp runs to its end: Python executes the next statement as long
\* as there is one, so a step that can be taken is taken
SpecLive == InitTwice /\ [][NextLive]_vars /\ WF_vars(NextLive)

\* either selector: fetch_timestamp with the per-minute selector, or
\* extract_keyframes on a handle of its own
InitSelectors == Init \/ InitKeyframes

NextSelectors == Next \/ NextKeyframes

SpecSelectors == InitSelectors /\ [][NextSelectors]_vars

----------------------------------------------------------------------------
(* Properties of fetch_timestamp, checked under Spec *)

Ended == pc \in { "done", "raised" }

\* the selector was entered and has been left, by return or by exception
ExtractionOver ==
    pc \in { "detect", "done" } \/ (pc = "raised" /\ error # "IOError")

EmittedIds == { frames_list[i].frame_id : i \in 1..Len(frames_list) }

\* i is a multiple of n
IsMultiple(i, n) == IF n = 0 THEN i = 0 ELSE i % n = 0

\* C1: a detector failure on one candidate does not end the search: the
\* search still hands every candidate to the detector and completes without
\* raising.
C1_DetectorFailureAbsorbed ==
    (Ended /\ error = "DetectorError") =>
        (pc = "done" /\ Len(detected) = Len(frames_list))

\* C2: when the container cannot be opened the call ends at once with the
\* IOError of open_video: no handle is held, no frame was read, no candidate
\* was handed to the detector, nothing was saved and nothing is returned.
C2_OpenFailureIsFatal ==
    (~video.openable /\ pc # "call") =>
        /\ pc = "raised"
        /\ error = "IOError"
        /\ cap = "none"
        /\ nreads = 0
        /\ frames_list = << >>
        /\ detected = << >>
        /\ nsaves = 0
        /\ files = { }
        /\ ret = Unset

\* C2 witness: a container that holds frames but cannot be opened, after the
\* call has ended.
C2_Witness ==
    /\ ~video.openable
    /\ NFrames(video.runs) >= 2
    /\ pc = "raised"
    /\ error = "IOError"

\* C3: a failure to save one candidate's annotated frame does not end the
\* search: the search still hands every candidate to the detector and
\* completes without raising.
C3_SaveFailureAbsorbed ==
    (Ended /\ error = "SaveError") =>
        (pc = "done" /\ Len(detected) = Len(frames_list))

\* C4: a completed search returns the aggregated result to its caller: the
\* list of detection results, not nothing.
C4_ReturnsAggregate ==
    pc = "done" => (ret # ReturnNone /\ ret.kind = "list")

\* C5: once the search has ended, the handle open_video acquired has been
\* released, whether the search returned or raised.
C5_HandleReleasedOnEveryExit ==
    (Ended /\ error # "IOError") => cap = "released"

\* C6 as stated: the handle is closed only after the detector has run on all
\* the candidates, so never before the first detector call.
C6_ClosedAfterDetection ==
    cap = "released" => Len(detected) = Len(frames_list)

\* the phases of a completed search over the candidates in frames_list
ExpectedPhases ==
    << "OPENED", "SAMPLING", "CLOSED" >>
        \o [i \in 1..Len(frames_list) |-> "DETECTING"]
        \o << "AGGREGATED" >>

IsPrefix(s, t) == Len(s) <= Len(t) /\ s = SubSeq(t, 1, Len(s))

\* C6 as amended: the phases occur in the order OPENED, SAMPLING, CLOSED,
\* DETECTING (once per candidate), AGGREGATED: the handle is released when
\* sampling ends, the detector runs only after the handle has been released,
\* and a completed search has gone through all the phases.
C6_ClosedBeforeDetection ==
    /\ IsPrefix(phases, ExpectedPhases)
    /\ (cap = "released") <=> (Len(phases) >= 3)
    /\ detected # << >> => cap = "released"
    /\ Len(detected) = Cardinality({ i \in 1..Len(phases) : phases[i] = "DETECTING" })
    /\ pc = "done" => phases = ExpectedPhases

\* C6 witness: a completed search that ran the detector on two or more
\* candidates after releasing the handle.
C6_Witness ==
    /\ pc = "done"
    /\ cap = "released"
    /\ Len(detected) >= 2
    /\ phases = ExpectedPhases

\* C7: once extract_keyframe_per_minute is over, the emitted frames are
\* exactly the decoded frames whose index is a multiple of the interval
\* length, in increasing order, and frame 0 is among them whenever a frame
\* could be decoded.
C7_FixedIntervalExact ==
    (ExtractionOver /\ video.readable >= 1) =>
        /\ \A i \in 0..(video.readable - 1) :
              (i \in EmittedIds) <=> IsMultiple(i, frames_per_minute)
        /\ \A i \in 1..Len(frames_list) : frames_list[i].frame_id \in 0..(video.readable - 1)
        /\ \A i, j \in 1..Len(frames_list) :
              i < j => frames_list[i].frame_id < frames_list[j].frame_id
        /\ 0 \in EmittedIds

----------------------------------------------------------------------------
(* Properties of extract_keyframes, checked under SpecKeyframes *)

InKeyframes == pc \in { "kf_loop", "kf_done" }

\* the frames decoded so far are all equal to the first one
AllDecodedIdentical ==
    \A i \in 0..(frame_idx - 1) : FrameAt(video.runs, i) = FrameAt(video.runs, 0)

\* C8: once extract_keyframes has decoded a frame, the first frame of the
\* stream (index 0) is the first emitted candidate, whatever the threshold.
C8_FirstFrameEmitted ==
    (InKeyframes /\ frame_idx >= 1) =>
        /\ frames_list # << >>
        /\ frames_list[1].frame_id = 0
        /\ frames_list[1].frame = FrameAt(video.runs, 0)

\* C8 witness: a finished run over two or more frames at threshold -1.0, where
\* nothing but the first frame can be emitted.
C8_Witness ==
    /\ pc = "kf_done"
    /\ threshold = -10
    /\ frame_idx >= 2
    /\ EmittedIds = { 0 }

\* C9: with threshold < 1.0, of two consecutive identical frames at most one
\* is emitted, and a finished run over a non-empty stream of identical frames
\* has emitted exactly one frame.
C9_IdenticalFramesOnce ==
    (InKeyframes /\ threshold < 10) =>
        /\ \A i \in 0..(frame_idx - 2) :
              FrameAt(video.runs, i) = FrameAt(video.runs, i + 1)
                  => ~({ i, i + 1 } \subseteq EmittedIds)
        /\ (pc = "kf_done" /\ frame_idx >= 1 /\ AllDecodedIdentical)
              => Len(frames_list) = 1

\* C9 witness: a finished run at the default threshold over three or more
\* identical frames, with one frame emitted.
C9_Witness ==
    /\ pc = "kf_done"
    /\ threshold = 6
    /\ frame_idx >= 3
    /\ AllDecodedIdentical
    /\ Len(frames_list) = 1

\* the reference is the histogram of the last emitted frame, None before any
C10_ReferenceIsLastEmitted ==
    InKeyframes =>
        prev_hist = IF frames_list = << >> THEN None
                    ELSE Some(HistOf(frames_list[Len(frames_list)].frame))

\* one decoded frame: it is emitted exactly when there is no reference or its
\* correlation with the reference is below the threshold, and the reference is
\* replaced by its histogram exactly then
C10_DecodeStep ==
    (pc = "kf_loop" /\ frame_idx' = frame_idx + 1) =>
        LET hist == HistOf(ReadFrame)
            emitted == frames_list' # frames_list
        IN  /\ emitted <=> (prev_hist = None \/ CorrelBelow(prev_hist[1], hist, threshold))
            /\ emitted => /\ prev_hist' = Some(hist)
                          /\ frames_list' = Append(frames_list, Candidate(ReadFrame, frame_idx, fps))
            /\ ~emitted => prev_hist' = prev_hist

\* C10: in extract_keyframes the reference histogram is always that of the
\* most recently emitted frame; a decoded frame is emitted exactly when there
\* is no reference yet or its correlation with the reference is below the
\* threshold, and the reference is reassigned exactly when a frame is emitted.
C10_ReferenceHistogram ==
    [](C10_ReferenceIsLastEmitted) /\ [][C10_DecodeStep]_vars

\* C10 witness: a finished run at the default threshold in which frame 1 was
\* decoded but not emitted, its histogram differs from frame 0's, and frame 2
\* was emitted against the reference of frame 0.
C10_Witness ==
    /\ pc = "kf_done"
    /\ threshold = 6
    /\ EmittedIds = { 0, 2 }
    /\ HistOf(FrameAt(video.runs, 1)) # HistOf(FrameAt(video.runs, 0))
    /\ ~CorrelBelow(HistOf(FrameAt(video.runs, 1)), HistOf(FrameAt(video.runs, 2)), threshold)

----------------------------------------------------------------------------
\* C11: on the same frame stream, a lower threshold makes extract_keyframes
\* emit at least as many frames as a higher one.  When a run under `threshold`
\* has ended, every lower threshold would have emitted at least as many frames
\* from the same video.
C11_LowerThresholdMoreKeyframes ==
    pc = "kf_done" =>
        \A t \in Thresholds :
            t < threshold =>
                Len(extract_keyframes(video, t)) >= Len(frames_list)

\* the run of the actions and the function agree on what is emitted
C11_RunIsFunction ==
    pc = "kf_done" => frames_list = extract_keyframes(video, threshold)

\* a black frame then a white one at threshold 0.6: both are emitted, and
\* threshold -1.0 emits the first only
C11_Witness ==
    /\ pc = "kf_done"
    /\ threshold = 6
    /\ Len(frames_list) = 2
    /\ Len(extract_keyframes(video, -10)) = 1

----------------------------------------------------------------------------
\* C12: for both selectors the emitted list is a subsequence of the decoded
\* frames in their order: every candidate is the decoded frame at its index,
\* the index is one already decoded, and the indices strictly increase, so no
\* frame is emitted twice.
C12_EmittedIsSubsequence ==
    /\ \A i \in 1..Len(frames_list) :
          /\ frames_list[i].frame_id \in 0..(frame_idx - 1)
          /\ frames_list[i].frame_id < video.readable
          /\ frames_list[i].frame = FrameAt(video.runs, frames_list[i].frame_id)
    /\ \A i, j \in 1..Len(frames_list) :
          i < j => frames_list[i].frame_id < frames_list[j].frame_id

\* extract_keyframes has ended having emitted frames 0 and 2 and skipped 1
C12_Witness ==
    /\ pc = "kf_done"
    /\ Len(frames_list) = 2
    /\ frames_list[2].frame_id = 2

\* the per-minute selector too emits frames 0 and 2 and skips 1
C12_WitnessPerMinute ==
    /\ pc = "detect"
    /\ Len(frames_list) = 2
    /\ frames_list[2].frame_id = 2

----------------------------------------------------------------------------
\* C13: every emitted candidate carries timestamp = frame_index / frame_rate,
\* the rate being the container's, or 30 when it reports none, and every
\* detection printed for a candidate carries that candidate's timestamp.
C13_TimestampIsIndexOverRate ==
    /\ \A i \in 1..Len(frames_list) :
          /\ frames_list[i].timestamp.n = frames_list[i].frame_id * 1000
          /\ frames_list[i].timestamp.d = EffectiveFps(video.rate)
          /\ frames_list[i].timestamp.d > 0
    /\ \A i \in 1..Len(printed) :
          /\ printed[i].timestamp.n = detected[Len(detected)] * 1000
          /\ printed[i].timestamp.d = EffectiveFps(video.rate)

\* a detection is printed for frame 1438 of a video at 23.976 frames a second,
\* the first frame of its second minute
C13_Witness ==
    /\ Len(printed) > 0
    /\ video.rate = 23976
    /\ detected[Len(detected)] = FramesPerMinute(23976)
    /\ printed[1].timestamp = Timestamp(FramesPerMinute(23976), 23976)

----------------------------------------------------------------------------
\* the confidences of a sequence of detections
Scores(dets) == [i \in 1..Len(dets) |-> dets[i].score]

\* a can be had from b by leaving elements out
RECURSIVE IsSubsequence(_, _)
IsSubsequence(a, b) ==
    IF a = << >> THEN TRUE
    ELSE IF b = << >> THEN FALSE
    ELSE IF Head(a) = Head(b) THEN IsSubsequence(Tail(a), Tail(b))
    ELSE IsSubsequence(a, Tail(b))

\* the save of the loop iteration under way went through to the drawing
DrewThisIteration ==
    /\ save
    /\ pc # "raised"
    /\ Len(attempts) > 0
    /\ attempts[Len(attempts)].frame_id = detected[Len(detected)]

\* C14: no detection with confidence below the detection threshold is
\* materialised: what the search prints and what it draws has confidence >= the
\* threshold, and the survivors are in the order the detector gave them.
C14_NoneBelowThreshold ==
    /\ \A i \in 1..Len(result) : result[i].score >= DetectThreshold
    /\ \A i \in 1..Len(printed) : printed[i].score >= DetectThreshold
    /\ \A i \in 1..Len(drawn) : drawn[i].score >= DetectThreshold
    /\ IsSubsequence(Scores(result), Scores(outputs))
    /\ IsSubsequence(Scores(printed), Scores(result))
    /\ DrewThisIteration => IsSubsequence(Scores(drawn), Scores(result))

\* the detector answered 0.4 then 0.1: the first is printed and drawn, the
\* second is not
C14_Witness ==
    /\ Scores(outputs) = << 400, 100 >>
    /\ Scores(printed) = << 400 >>
    /\ DrewThisIteration
    /\ Scores(drawn) = << 400 >>

\* the order is kept when two detections survive
C14_WitnessOrder ==
    /\ Scores(outputs) = << 400, 200 >>
    /\ Scores(printed) = << 400, 200 >>
    /\ DrewThisIteration
    /\ Scores(drawn) = << 400, 200 >>

----------------------------------------------------------------------------
\* the candidate of the loop iteration under way
CurrentCandidate ==
    CHOOSE c \in { frames_list[i] : i \in 1..Len(frames_list) } :
        c.frame_id = detected[Len(detected)]

\* the box lies within [0, width] x [0, height], in units of 1/unit pixel
InFrame(box, size, unit) ==
    /\ box[1] \in 0..(size.width * unit)
    /\ box[3] \in 0..(size.width * unit)
    /\ box[2] \in 0..(size.height * unit)
    /\ box[4] \in 0..(size.height * unit)

\* C15: every box the search prints or draws lies within
\* [0, width] x [0, height] of the frame it was detected on, whatever the
\* detector returned.
C15_BoxesWithinFrame ==
    Len(detected) > 0 =>
        LET size == TargetSize(CurrentCandidate.frame)
        IN  /\ \A i \in 1..Len(printed) : InFrame(printed[i].box, size, 1000)
            /\ DrewThisIteration =>
                  \A i \in 1..Len(drawn) : InFrame(drawn[i].box, size, 1)

\* a box that starts left of the frame is printed and drawn as it came
C15_Witness ==
    /\ DrewThisIteration
    /\ Len(printed) = 1
    /\ printed[1].box[1] < 0
    /\ drawn[1].box[1] < 0

\* a box inside the unit square is scaled by the longer side of the frame and
\* ends below the frame
C15_WitnessScaled ==
    /\ DrewThisIteration
    /\ outputs = << [score |-> 200, box |-> BoxFull] >>
    /\ drawn[1].box[4] > TargetSize(CurrentCandidate.frame).height

----------------------------------------------------------------------------
\* C16: within one search the candidates are handed to the detector in the
\* order the selector emitted them, so detections come in non-decreasing
\* frame-index order: the frames detected on so far are the first candidates
\* of the list, in the order of the list.
C16_DetectedInEmittedOrder ==
    /\ Len(detected) <= Len(frames_list)
    /\ \A i \in 1..Len(detected) : detected[i] = frames_list[i].frame_id
    /\ \A i, j \in 1..Len(detected) : i <= j => detected[i] <= detected[j]
    /\ \A i \in 1..Len(attempts) :
          \A j \in 1..Len(attempts) :
              i < j => attempts[i].frame_id < attempts[j].frame_id

\* detections were found on frame 0 and then on frame 2, the two candidates
C16_Witness ==
    /\ detected = << 0, 2 >>
    /\ matched = { 0, 2 }
    /\ Len(printed) > 0

----------------------------------------------------------------------------
\* the frame indices of a sequence of candidates or of save calls
FrameIds(seq) == { seq[i].frame_id : i \in 1..Len(seq) }

\* the frame indices handed to the detector so far
DetectedIds == { detected[i] : i \in 1..Len(detected) }

\* C17: an annotated file is written for a candidate if and only if the frame
\* has at least one surviving detection; the file name is the zero-padded
\* frame index, so distinct candidates of a search get distinct files.
C17_ArtifactIffDetection ==
    /\ \A id \in DetectedIds : FileName(id) \in files <=> id \in matched
    /\ \A id \in FrameIds(frames_list) :
          \A other \in FrameIds(frames_list) :
              id # other => FileName(id) # FileName(other)

\* what the code does guarantee: save_frame_with_boxes is called for exactly
\* the frames with a surviving detection, the files present are those of the
\* calls whose write went through, and the names of distinct candidates differ
C17_SaveCalledIffDetection ==
    /\ \A id \in DetectedIds : id \in FrameIds(attempts) <=> id \in matched
    /\ files = { FileName(attempts[i].frame_id) :
                    i \in { k \in 1..Len(attempts) : attempts[k].outcome = "written" } }
    /\ \A id \in FrameIds(frames_list) :
          \A other \in FrameIds(frames_list) :
              id # other => FileName(id) # FileName(other)

\* the search ended normally, frame 0 had a surviving detection, and no file
\* was written for it because cv2.imwrite failed without raising
C17_Witness ==
    /\ pc = "done"
    /\ 0 \in matched
    /\ FileName(0) \notin files

----------------------------------------------------------------------------
\* C18: run again on the same video and query with a deterministic detector,
\* the search prints the same detections in the same order and writes the same
\* files, and ends the same way: nothing of an earlier run changes a later one.
C18_RunsAgree ==
    \A i, j \in 1..Len(capture) : capture[i] = capture[j]

\* both runs ended normally, having printed detections for two frames and
\* written their files
C18_Witness ==
    /\ Len(capture) = MaxRuns
    /\ capture[1].ended = "done"
    /\ capture[MaxRuns].count_frame = 2
    /\ Len(capture[MaxRuns].log) >= 2
    /\ capture[MaxRuns].written = { FileName(0), FileName(2) }

----------------------------------------------------------------------------
\* C19: the total_frames_processed of the response equals the number of
\* candidate frames the search ran the detector on.
C19_TotalIsFramesProcessed ==
    (pc = "responded" /\ response.kind = "response") =>
        /\ response.total_frames_processed = count_frame
        /\ response.total_frames_processed = Len(detected)

\* the detector ran on two candidates and the response counts none
C19_Witness ==
    /\ pc = "responded"
    /\ response.kind = "response"
    /\ Len(detected) = 2
    /\ response.total_frames_processed = 0

----------------------------------------------------------------------------
\* C20: the endpoint searches the video its request refers to, the file the
\* s3_url resolves to, and no other.
C20_SearchesRequestedVideo ==
    pc # "api_call" =>
        /\ location = Download(request.s3_url)
        /\ video = store[Download(request.s3_url)]

\* the request refers to a recording of two frames, the file in storage holds
\* one frame, and the search ran the detector on that one frame and answered
C20_Witness ==
    /\ pc = "responded"
    /\ response.kind = "response"
    /\ NFrames(store[Download(request.s3_url)].runs) = 2
    /\ NFrames(store[StoragePath].runs) = 1
    /\ detected = << 0 >>

----------------------------------------------------------------------------
\* C21: the detections of the response are the detections the search
\* produced: when the search found a surviving detection on some frame, the
\* response's detections are not empty.
C21_ResponseCarriesDetections ==
    (pc = "responded" /\ response.kind = "response" /\ matched # { }) =>
        Len(response.detections) > 0

\* the search printed a detection for frame 0 and the response lists none
C21_Witness ==
    /\ pc = "responded"
    /\ response.kind = "response"
    /\ 0 \in matched
    /\ response.detections = << >>

----------------------------------------------------------------------------
\* C22: the detector model is loaded once per process, at its start, and the
\* one instance serves every search: however many requests were served, the
\* number of model loads is one.
C22_ModelLoadedOnce ==
    pc # "import" => loads = 1

\* the process has answered one request and has loaded the model three times
C22_Witness ==
    /\ pc = "responded"
    /\ served = 1
    /\ loads = 3

----------------------------------------------------------------------------
\* C29: until a request is made no video is opened and no search is run, and
\* the start of the process cannot fail for want of a video file.
C29_NoSearchBeforeRequest ==
    request = Unset =>
        /\ cap = "none"
        /\ phases = << >>
        /\ pc # "crashed"

\* no request was made, short_cctv.mp4 cannot be opened, and the process is down
C29_Witness ==
    /\ request = Unset
    /\ ~store["short_cctv.mp4"].openable
    /\ pc = "crashed"
    /\ error = "IOError"

\* no request was made and the detector has run on a frame of short_cctv.mp4
C29_WitnessSearch ==
    /\ request = Unset
    /\ Len(detected) > 0
    /\ location = "short_cctv.mp4"

----------------------------------------------------------------------------
\* C30: a file written by one search is never overwritten by another search of
\* a different video or query: what a search wrote under a name stays under
\* that name.
C30_NeverOverwritten ==
    [][\A r \in written : r \in written']_vars

\* the file of frame 0 is on disk, written by the request's search of the
\* storage file, after the import's search had written it
C30_Witness ==
    /\ request # Unset
    /\ \E r \in written : r.name = FileName(0) /\ r.location = StoragePath
    /\ ~\E r \in written : r.name = FileName(0) /\ r.location = "short_cctv.mp4"
    /\ Len(capture) = 0
    /\ served > 0

----------------------------------------------------------------------------
\* a read has failed: the selector made one read more than there were
\* readable frames
ReadFailed == nreads > video.readable

\* the read failed on a frame of the stream, not at its end
FailedMidStream == ReadFailed /\ video.readable < NFrames(video.runs)

\* C23: a decode failure in the middle of the stream ends the extraction
\* there, without raising: the candidates selected before the failing frame
\* are kept and it is they that the detector is run on, and no frame from the
\* failing one on is emitted.
C23_DecodeFailureTruncates ==
    FailedMidStream =>
        /\ error \notin { "IOError", "ZeroDivisionError" }
        /\ frame_idx = video.readable
        /\ cap = "released"
        /\ \A i \in 1..Len(frames_list) : frames_list[i].frame_id < video.readable
        /\ video.readable >= 1 => 0 \in EmittedIds
        /\ pc \in { "kf_done", "detect", "done", "raised" }
        /\ pc = "kf_done" => ret = ReturnList(frames_list)
        /\ pc \in { "detect", "done", "raised" } =>
              /\ video.readable >= 1 => frames_per_minute > 0
              /\ \A i \in 0..(video.readable - 1) :
                    i \in EmittedIds <=> i % frames_per_minute = 0
              /\ \A i \in 1..Len(detected) : detected[i] = frames_list[i].frame_id
        /\ pc = "done" => Len(detected) = Len(frames_list)

\* the third frame of three could not be decoded: the search ended normally
\* having run the detector on the first two
C23_Witness ==
    /\ FailedMidStream
    /\ video.readable = 2
    /\ NFrames(video.runs) = 3
    /\ pc = "done"
    /\ detected = << 0, 1 >>

\* extract_keyframes too returns what it emitted before the failing frame
C23_WitnessKeyframes ==
    /\ FailedMidStream
    /\ video.readable = 2
    /\ pc = "kf_done"
    /\ Len(frames_list) = 2

----------------------------------------------------------------------------
\* round(n / d) as Python rounds: to the nearest integer, a half to the even one
RoundDiv(n, d) ==
    LET q == n \div d
        r == n % d
    IN  IF 2 * r < d THEN q
        ELSE IF 2 * r > d THEN q + 1
        ELSE IF q % 2 = 0 THEN q ELSE q + 1

\* the selector has computed its interval
IntervalComputed ==
    \/ pc \in { "pm_loop", "detect", "done" }
    \/ pc = "raised" /\ error # "IOError"

\* C24: the interval of the fixed-interval selector, in frames, is
\* round(fps * 60), for every frame rate, 23.976 included.
C24_IntervalIsRounded ==
    IntervalComputed => frames_per_minute = RoundDiv(fps * 60, 1000)

\* at 23.976 frames a second the interval is 1438 frames, and
\* round(1438.56) is 1439
C24_Witness ==
    /\ IntervalComputed
    /\ fps = 23976
    /\ frames_per_minute = 1438
    /\ RoundDiv(fps * 60, 1000) = 1439

----------------------------------------------------------------------------
\* the search is over and the handle closed: success or partial success
Closed == pc = "done" /\ cap = "released"

\* the search failed because the video could not be opened
Failed == pc = "raised" /\ error = "IOError" /\ ~video.openable

\* C25: every search over a finite video terminates, in CLOSED, or in FAILED
\* and then only because the video could not be opened.
C25_EndsClosedOrFailed == <>(Closed \/ Failed)

\* what does hold: every search comes to an end, by returning or by raising
C25_Terminates == <>Ended

\* the search has ended by an exception of the detector, the video having
\* been opened, sampled and closed
C25_Witness ==
    /\ pc = "raised"
    /\ error = "DetectorError"
    /\ video.openable
    /\ cap = "released"

----------------------------------------------------------------------------
----------------------------------------------------------------------------
\* C27: for every candidate, the boxes drawn on its artifact are the
\* detections that survived the detection threshold for it: the drawing
\* threshold hides none that was reported and shows none that was not.
C27_DrawnAreSurvivors ==
    DrewThisIteration =>
        /\ Len(drawn) = Len(result)
        /\ Len(drawn) = Len(printed)
        /\ \A i \in 1..Len(drawn) :
              /\ drawn[i].score = result[i].score
              /\ drawn[i].score = printed[i].score
              /\ drawn[i].box = [k \in 1..4 |-> IntOf(result[i].box[k])]

\* the detector answered 0.15 and 0.2: the 0.2 detection alone survives, and
\* it is the one box drawn
C27_Witness ==
    /\ DrewThisIteration
    /\ Scores(outputs) = << 150, 200 >>
    /\ Scores(printed) = << 200 >>
    /\ Scores(drawn) = << 200 >>

----------------------------------------------------------------------------
\* C28: for every frame rate the container can report the interval of the
\* fixed-interval selector is at least one frame, so frame_idx %
\* frames_per_minute never divides by zero.
C28_IntervalAtLeastOne ==
    /\ IntervalComputed => frames_per_minute >= 1
    /\ error # "ZeroDivisionError"

\* at 0.01 frames a second the interval is 0 and the first frame read ends
\* the selector in ZeroDivisionError, the handle left open
C28_Witness ==
    /\ fps = 10
    /\ frames_per_minute = 0
    /\ pc = "raised"
    /\ error = "ZeroDivisionError"
    /\ nreads = 1
    /\ cap = "open"

============================================================================
